---- MODULE Spec2Model ----
(***************************************************************************)
(* Error estimators of fem/estimators.cpp: the Kelly face-jump estimator   *)
(* run by NumProcs processes on a partitioned mesh, and the cache contract *)
(* of the estimator family (ZienkiewiczZhu, L2ZienkiewiczZhu, Kelly, Lp).  *)
(*                                                                         *)
(* Numbers are integers: the flux space is the lowest-order discontinuous  *)
(* space (one value per element), quadrature weights and the face weight   *)
(* are 1, the normal is 1 and sqrt is the integer square root.             *)
(***************************************************************************)
EXTENDS Integers, Sequences, FiniteSets, TLC

\* ---- bounds of the model ----
NumElems == 3
NumFaces == 2
NumProcs == 2
NumAttr == 2
MaxFilterAttr == 1
MaxFlux == 1
MaxSeq == 1

Elements == 0 .. (NumElems - 1)
Procs == 1 .. NumProcs
Attrs == 1 .. NumAttr
Kinds == {"ZZ", "L2ZZ", "Kelly", "Lp"}

\* Mesh::FaceInfo of a face of the whole mesh: Elem2No = -1 on a boundary
\* face, NCFace >= 0 on the slave side of a non-conforming face.
FaceInfos ==
  {fi \in [Elem1No : Elements, Elem2No : Elements \cup {-1}, NCFace : {-1, 0}] :
      /\ fi.Elem1No # fi.Elem2No
      /\ (fi.Elem2No = -1 => fi.NCFace = -1)}

\* The numbering of the faces is immaterial to the estimators: meshes are
\* taken up to a renumbering of their faces.
FaceKey(fi) == ((fi.Elem1No * (NumElems + 1)) + fi.Elem2No + 1) * 2 + fi.NCFace + 1

Meshes ==
  {m \in [1 .. NumFaces -> FaceInfos] :
      \A i \in 1 .. NumFaces : \A j \in i .. NumFaces : FaceKey(m[i]) <= FaceKey(m[j])}

\* The ranks are interchangeable: element 0 is on the first process. A
\* process may own no element.
Partitions == {o \in [Elements -> Procs] : o[0] = 1}

VARIABLES
  kind,                \* the family member constructed
  vdim,                \* xfes->GetVDim()
  coef,                \* LpErrorEstimator: "none", "scalar" (coef) or "vector" (vcoef)
  mfem_debug,          \* MFEM_DEBUG build: MFEM_ASSERT is compiled in
  anisotropic,         \* ZienkiewiczZhuEstimator::anisotropic
  faces,               \* the faces of the whole mesh
  elemAttr,            \* attribute of every element
  attributes,          \* KellyErrorEstimator::attributes, the filter
  elflux,              \* what the flux integrator returns on each element
  owner,               \* the partition: the process owning each element
  meshSeq,             \* Mesh::GetSequence()
  pc,                  \* position of each process in ComputeEstimates()
  error_estimates,
  total_error,
  current_sequence,
  aniso_flags,
  flux_space_sequence, \* the sequence flux_space was last updated to
  flux,                \* the ParGridFunction flux of the running call
  face_nbr_data,       \* flux values of face-neighbour elements
  process_local_error, \* the send buffer of MPI_Allreduce
  fluxCalls,           \* elements ComputeElementFlux was called on
  integrated,          \* faces integrated by the local pass, in order
  nExchange,           \* ExchangeFaceNbrData calls completed in this call
  nAllreduce,          \* MPI_Allreduce calls completed in this call
  face_sums,           \* error_estimates before "Finalize element errors"
  startedStale         \* the running call started with a stale cache

inputs == <<kind, vdim, coef, mfem_debug, anisotropic, faces, elemAttr, attributes, elflux>>
mesh == <<owner, meshSeq>>
results == <<error_estimates, total_error, current_sequence, aniso_flags, flux_space_sequence>>
scratch == <<flux, face_nbr_data, process_local_error>>
ghost == <<fluxCalls, integrated, nExchange, nAllreduce, face_sums, startedStale>>
vars == <<inputs, mesh, pc, results, scratch, ghost>>

\* ---- generic helpers ----
RECURSIVE SumSeq(_)
SumSeq(s) == IF s = <<>> THEN 0 ELSE Head(s) + SumSeq(Tail(s))

RECURSIVE SumOver(_, _)
\* sum of val[x] over the x of S
SumOver(S, val) ==
  IF S = {} THEN 0
  ELSE LET x == CHOOSE y \in S : TRUE IN val[x] + SumOver(S \ {x}, val)

Count(s, x) == Cardinality({i \in 1 .. Len(s) : s[i] = x})

\* sqrt on the integers
Isqrt(n) == CHOOSE r \in 0 .. n : r * r <= n /\ n < (r + 1) * (r + 1)

\* Vector::SetSize followed by the values being overwritten
VectorSetSize(v, n) == [i \in 1 .. n |-> IF i <= Len(v) THEN v[i] ELSE 0]

\* Array<int>::Find: an index, or -1
Find(arr, a) == IF a \in arr THEN 0 ELSE -1

\* ---- the mesh of one process (ParMesh), for the partition own ----
\* ParMesh::GetNE
GetNE(own, p) == Cardinality({g \in Elements : own[g] = p})

\* local number of element g on its process: local elements keep the order
\* of the whole mesh
LocalIndex(own, g) == Cardinality({h \in Elements : own[h] = own[g] /\ h < g})

GlobalOf(own, p, e) == CHOOSE g \in Elements : own[g] = p /\ LocalIndex(own, g) = e

Touches(own, p, f) ==
  \/ own[faces[f].Elem1No] = p
  \/ faces[f].Elem2No >= 0 /\ own[faces[f].Elem2No] = p

\* a face between elements of two processes
IsShared(own, f) ==
  faces[f].Elem2No >= 0 /\ own[faces[f].Elem1No] # own[faces[f].Elem2No]

\* the faces of the local mesh, 0 .. GetNumFaces()-1 in the code
LocalFaces(own, p) ==
  SelectSeq([f \in 1 .. NumFaces |-> f], LAMBDA f : Touches(own, p, f))

\* the shared faces, 0 .. GetNSharedFaces()-1 in the code
SharedFaces(own, p) ==
  SelectSeq([f \in 1 .. NumFaces |-> f],
            LAMBDA f : IsShared(own, f) /\ Touches(own, p, f))

\* the local element of a shared face, and the one of the other process
MyElem(own, p, f) ==
  IF own[faces[f].Elem1No] = p THEN faces[f].Elem1No ELSE faces[f].Elem2No

NbrElem(own, p, f) ==
  IF own[faces[f].Elem1No] = p THEN faces[f].Elem2No ELSE faces[f].Elem1No

\* face-neighbour elements of process p, numbered GetNE() + index
FaceNbrElems(own, p) ==
  {NbrElem(own, p, f) : f \in {x \in 1 .. NumFaces : IsShared(own, x) /\ Touches(own, p, x)}}

FaceNbrIndex(own, p, g) == Cardinality({h \in FaceNbrElems(own, p) : h < g})

FaceNbrOf(own, p, k) ==
  CHOOSE g \in FaceNbrElems(own, p) : FaceNbrIndex(own, p, g) = k

\* processes p exchanges face-neighbour data with
FaceNbrRanks(own, p) == {own[g] : g \in FaceNbrElems(own, p)}

\* ParMesh::GetFaceElementTransformations(f): a shared face has no local
\* second element (Elem2No < 0, FaceIsInterior false)
GetFaceElementTransformations(own, p, f) ==
  IF IsShared(own, f)
  THEN [Elem1No |-> LocalIndex(own, MyElem(own, p, f)), Elem2No |-> -1,
        NCFace |-> faces[f].NCFace,
        Elem1 |-> MyElem(own, p, f), Elem2 |-> -1, face |-> f]
  ELSE [Elem1No |-> LocalIndex(own, faces[f].Elem1No),
        Elem2No |-> IF faces[f].Elem2No >= 0
                    THEN LocalIndex(own, faces[f].Elem2No) ELSE -1,
        NCFace |-> faces[f].NCFace,
        Elem1 |-> faces[f].Elem1No, Elem2 |-> faces[f].Elem2No, face |-> f]

\* ParMesh::GetSharedFaceTransformations(sf, true): Elem1 is the local
\* element, Elem2 the face-neighbour element
GetSharedFaceTransformations(own, p, f) ==
  [Elem1No |-> LocalIndex(own, MyElem(own, p, f)),
   Elem2No |-> GetNE(own, p) + FaceNbrIndex(own, p, NbrElem(own, p, f)),
   NCFace |-> faces[f].NCFace,
   Elem1 |-> MyElem(own, p, f), Elem2 |-> NbrElem(own, p, f), face |-> f]

\* Mesh::FaceIsInterior
FaceIsInterior(FT) == FT.Elem2No >= 0

\* ---- KellyErrorEstimator::ComputeEstimates, the pure parts ----
\* attributes.Size() && attributes.Find(attr) == -1
Filtered(attr) == Cardinality(attributes) # 0 /\ Find(attributes, attr) = -1

\* flux_integrator->ComputeElementFlux on element g of the whole mesh
ComputeElementFlux(g) == elflux[g]

\* 1. Compute fluxes in discontinuous space
FluxRecovery(own, p) ==
  [i \in 1 .. GetNE(own, p) |->
     LET g == GlobalOf(own, p, i - 1) IN
     IF Filtered(elemAttr[g]) THEN 0 ELSE 0 + ComputeElementFlux(g)]

FluxCallSet(own, p) ==
  {e \in 0 .. (GetNE(own, p) - 1) : ~Filtered(elemAttr[GlobalOf(own, p, e)])}

\* ParGridFunction::GetVectorValue: a local element, or a face neighbour
GetVectorValue(own, p, fl, nbr, elno) ==
  IF elno < GetNE(own, p) THEN fl[elno + 1] ELSE nbr[elno - GetNE(own, p) + 1]

GetFaceOrder == 1
\* points of the rule int_rules.Get(FaceGeom, order)
GetNPoints(order) == (order \div 2) + 1
\* CalcOrtho of the face Jacobian
CalcOrtho == 1

\* the term of one side at one point: val * normal * fip.weight * Face->Weight()
SideTerm(val, normal) == val * normal * 1 * 1

\* jumps(i) after both sides and the squaring: the second side is taken with
\* the negated normal and subtracted
SquaredJump(val1, val2) ==
  LET j1 == SideTerm(val1, CalcOrtho)
      j2 == j1 - SideTerm(val2, -CalcOrtho)
  IN j2 * j2

\* jumps.Sum()
RECURSIVE JumpsSum(_, _, _)
JumpsSum(nip, val1, val2) ==
  IF nip = 0 THEN 0 ELSE SquaredJump(val1, val2) + JumpsSum(nip - 1, val1, val2)

\* compute_face_coefficient: a size of the face; the slave side of a
\* non-conforming face is the smaller one
compute_face_coefficient(f) == IF faces[f].NCFace >= 0 THEN 1 ELSE 2

\* compute_element_coefficient: a size of the element
compute_element_coefficient(g) == 1 + (g % 2)

\* jump_integral of a face seen by process p
JumpIntegral(own, p, fl, nbr, FT) ==
  LET nip == GetNPoints(2 * GetFaceOrder)
      val1 == GetVectorValue(own, p, fl, nbr, FT.Elem1No)
      val2 == GetVectorValue(own, p, fl, nbr, FT.Elem2No)
  IN compute_face_coefficient(FT.face) * JumpsSum(nip, val1, val2)

\* the face ownership convention of the local pass
OwnsFace(FT, NCFace) ==
  LET isNCSlave == FT.Elem2No >= 0 /\ NCFace >= 0
      isConforming == FT.Elem2No >= 0 /\ NCFace = -1
  IN (FT.Elem1No < FT.Elem2No /\ isConforming) \/ isNCSlave

\* only the first side of the face is tested against the attribute filter
FaceFiltered_Elem1Only(FT) ==
  Cardinality(attributes) # 0 /\ Find(attributes, elemAttr[FT.Elem1]) = -1

\* either side of the face fails the attribute filter
FaceFiltered(FT) ==
  /\ Cardinality(attributes) # 0
  /\ (Find(attributes, elemAttr[FT.Elem1]) = -1 \/ Find(attributes, elemAttr[FT.Elem2]) = -1)

\* error_estimates(Elem1No) += jump_integral; error_estimates(Elem2No) += jump_integral
CreditLocal(err, FT, jump_integral) ==
  LET e1 == [err EXCEPT ![FT.Elem1No + 1] = @ + jump_integral]
  IN [e1 EXCEPT ![FT.Elem2No + 1] = @ + jump_integral]

\* a shared face credited twice, as a local face is
CreditShared_Twice(err, FT, jump_integral) ==
  [err EXCEPT ![FT.Elem1No + 1] = @ + jump_integral + jump_integral]

\* error_estimates(Elem1No) += jump_integral
CreditShared(err, FT, jump_integral) ==
  [err EXCEPT ![FT.Elem1No + 1] = @ + jump_integral]

\* 2. Add error contribution from local interior faces: the loop from face
\* number k of the local mesh on; log is the list of the faces integrated
RECURSIVE LocalFacePass(_, _, _, _, _, _)
LocalFacePass(own, p, fl, k, err, log) ==
  IF k > Len(LocalFaces(own, p)) THEN [err |-> err, log |-> log]
  ELSE
    LET f == LocalFaces(own, p)[k]
        FT == GetFaceElementTransformations(own, p, f)
    IN IF FaceIsInterior(FT) /\ OwnsFace(FT, FT.NCFace) /\ ~FaceFiltered(FT)
       THEN LocalFacePass(own, p, fl, k + 1,
                          CreditLocal(err, FT, JumpIntegral(own, p, fl, <<>>, FT)),
                          Append(log, f))
       ELSE LocalFacePass(own, p, fl, k + 1, err, log)

\* flux.ExchangeFaceNbrData(): the flux of every face-neighbour element, as
\* its owner computed it
ExchangeFaceNbrData(own, p, allflux) ==
  [k \in 1 .. Cardinality(FaceNbrElems(own, p)) |->
     LET g == FaceNbrOf(own, p, k - 1) IN allflux[own[g]][LocalIndex(own, g) + 1]]

\* 3. Add error contribution from shared interior faces: the loop from
\* shared face number k on
RECURSIVE SharedFacePass(_, _, _, _, _, _)
SharedFacePass(own, p, fl, nbr, k, err) ==
  IF k > Len(SharedFaces(own, p)) THEN err
  ELSE
    LET FT == GetSharedFaceTransformations(own, p, SharedFaces(own, p)[k])
    IN IF FaceFiltered(FT)
       THEN SharedFacePass(own, p, fl, nbr, k + 1, err)
       ELSE SharedFacePass(own, p, fl, nbr, k + 1,
                           CreditShared(err, FT, JumpIntegral(own, p, fl, nbr, FT)))

\* Finalize element errors: sqrt(factor * error_estimates(e))
FinalizeElement(factor, sum) == Isqrt(factor * sum)

FinalizeErrors(own, p, err) ==
  [i \in 1 .. Len(err) |->
     FinalizeElement(compute_element_coefficient(GlobalOf(own, p, i - 1)), err[i])]

\* a root taken after the reduction
AllreduceSum_RootAfter(send) == Isqrt(SumOver(Procs, send))

\* MPI_Allreduce(.., MPI_SUM, ..): what every process receives
AllreduceSum(send) == SumOver(Procs, send)

\* ---- the state machine ----
PerProc(x) == [p \in Procs |-> x]

InitState ==
  /\ meshSeq = 0
  /\ pc = PerProc("idle")
  /\ error_estimates = PerProc(<<>>)
  /\ total_error = PerProc(0)
  /\ current_sequence = PerProc(-1)
  /\ aniso_flags = PerProc(<<>>)
  /\ flux_space_sequence = PerProc(0)
  /\ flux = PerProc(<<>>)
  /\ face_nbr_data = PerProc(<<>>)
  /\ process_local_error = PerProc(0)
  /\ fluxCalls = PerProc({})
  /\ integrated = PerProc(<<>>)
  /\ nExchange = PerProc(0)
  /\ nAllreduce = PerProc(0)
  /\ face_sums = PerProc(<<>>)
  /\ startedStale = PerProc(FALSE)

\* A KellyErrorEstimator on every mesh, partition, filter and flux of the bounds
Init ==
  /\ kind = "Kelly"
  /\ vdim = 1
  /\ coef = "none"
  /\ mfem_debug = TRUE
  /\ anisotropic = FALSE
  /\ faces \in Meshes
  /\ attributes \in SUBSET (1 .. MaxFilterAttr)
  /\ elemAttr \in [Elements -> Attrs]
  \* with an empty filter attributes.Size() is 0 and no attribute is compared
  /\ (attributes = {} => elemAttr = [g \in Elements |-> 1])
  /\ elflux \in [Elements -> 0 .. MaxFlux]
  /\ owner \in Partitions
  /\ InitState

\* flux.ExchangeFaceNbrData() of process p can complete: every face-neighbour
\* process has sent its flux
ExchangeCanComplete(p) ==
  \A q \in FaceNbrRanks(owner, p) : pc[q] \in {"exch", "reduce"}

\* MPI_Allreduce can complete: every process of the communicator has called it
AllreduceCanComplete == \A p \in Procs : pc[p] = "reduce"

\* KellyErrorEstimator::ComputeEstimates up to the call of
\* flux.ExchangeFaceNbrData(): flux_space->Update, SetSize, flux recovery
\* and the local faces
Start(p) ==
  /\ kind = "Kelly"
  /\ pc[p] = "idle"
  /\ ~(mfem_debug /\ vdim # 1)
  /\ LET fl == FluxRecovery(owner, p)
         zero == [i \in 1 .. Len(VectorSetSize(error_estimates[p], GetNE(owner, p))) |-> 0]
         r == LocalFacePass(owner, p, fl, 1, zero, <<>>)
     IN /\ flux' = [flux EXCEPT ![p] = fl]
        /\ error_estimates' = [error_estimates EXCEPT ![p] = r.err]
        /\ integrated' = [integrated EXCEPT ![p] = r.log]
  /\ flux_space_sequence' = [flux_space_sequence EXCEPT ![p] = meshSeq]
  /\ face_nbr_data' = [face_nbr_data EXCEPT ![p] = <<>>]
  /\ fluxCalls' = [fluxCalls EXCEPT ![p] = FluxCallSet(owner, p)]
  /\ nExchange' = [nExchange EXCEPT ![p] = 0]
  /\ nAllreduce' = [nAllreduce EXCEPT ![p] = 0]
  /\ face_sums' = [face_sums EXCEPT ![p] = <<>>]
  /\ startedStale' = [startedStale EXCEPT ![p] = (current_sequence[p] # meshSeq)]
  /\ pc' = [pc EXCEPT ![p] = "exch"]
  /\ UNCHANGED <<inputs, mesh, total_error, current_sequence, aniso_flags, process_local_error>>

\* MFEM_ASSERT(xfes->GetVDim() == 1, ..) fails, after flux_space->Update(false)
KellyAssertFail(p) ==
  /\ kind = "Kelly"
  /\ pc[p] = "idle"
  /\ mfem_debug /\ vdim # 1
  /\ flux_space_sequence' = [flux_space_sequence EXCEPT ![p] = meshSeq]
  /\ startedStale' = [startedStale EXCEPT ![p] = (current_sequence[p] # meshSeq)]
  /\ pc' = [pc EXCEPT ![p] = "config_error"]
  /\ UNCHANGED <<inputs, mesh, error_estimates, total_error, current_sequence, aniso_flags,
                 scratch, fluxCalls, integrated, nExchange, nAllreduce, face_sums>>

\* flux.ExchangeFaceNbrData() completes once every face-neighbour process has
\* sent its flux; then the shared faces, "Finalize element errors",
\* current_sequence = GetSequence(), the local sum and the call of MPI_Allreduce
SharedFacesStep(p) ==
  /\ pc[p] = "exch"
  /\ ExchangeCanComplete(p)
  /\ LET nbr == ExchangeFaceNbrData(owner, p, flux)
         sums == SharedFacePass(owner, p, flux[p], nbr, 1, error_estimates[p])
         fin == FinalizeErrors(owner, p, sums)
     IN /\ face_nbr_data' = [face_nbr_data EXCEPT ![p] = nbr]
        /\ face_sums' = [face_sums EXCEPT ![p] = sums]
        /\ error_estimates' = [error_estimates EXCEPT ![p] = fin]
        /\ process_local_error' = [process_local_error EXCEPT ![p] = SumSeq(fin)]
  /\ nExchange' = [nExchange EXCEPT ![p] = @ + 1]
  /\ current_sequence' = [current_sequence EXCEPT ![p] = meshSeq]
  /\ pc' = [pc EXCEPT ![p] = "reduce"]
  /\ UNCHANGED <<inputs, mesh, total_error, aniso_flags, flux_space_sequence, flux,
                 fluxCalls, integrated, nAllreduce, startedStale>>

\* a reduction that does not wait for the other processes
Allreduce_NoWait ==
  \E p \in Procs :
    /\ pc[p] = "reduce"
    /\ total_error' = [total_error EXCEPT ![p] = AllreduceSum(process_local_error)]
    /\ nAllreduce' = [nAllreduce EXCEPT ![p] = @ + 1]
    /\ pc' = [pc EXCEPT ![p] = "done"]
    /\ UNCHANGED <<inputs, mesh, error_estimates, current_sequence, aniso_flags,
                   flux_space_sequence, scratch, fluxCalls, integrated, nExchange, face_sums,
                   startedStale>>

\* MPI_Allreduce completes on the processes, all of which have called it
Allreduce ==
  /\ AllreduceCanComplete
  /\ total_error' = PerProc(AllreduceSum(process_local_error))
  /\ nAllreduce' = [p \in Procs |-> nAllreduce[p] + 1]
  /\ pc' = PerProc("done")
  /\ UNCHANGED <<inputs, mesh, error_estimates, current_sequence, aniso_flags,
                 flux_space_sequence, scratch, fluxCalls, integrated, nExchange, face_sums,
                 startedStale>>

Next ==
  \/ \E p \in Procs : Start(p)
  \/ \E p \in Procs : SharedFacesStep(p)
  \/ Allreduce

Spec == Init /\ [][Next]_vars

\* ---- the estimator family and its cache contract ----
\* what an external numerical routine may write into a vector of n entries
ExternalValues(n) == {[i \in 1 .. n |-> v] : v \in 0 .. MaxFlux}

\* ZienkiewiczZhuEstimator::ComputeEstimates
ZZCompute(p) ==
  /\ kind = "ZZ"
  /\ pc[p] = "idle"
  /\ flux_space_sequence' = [flux_space_sequence EXCEPT ![p] = meshSeq]
  /\ aniso_flags' =
       [aniso_flags EXCEPT
          ![p] = IF ~anisotropic THEN <<>> ELSE [i \in 1 .. GetNE(owner, p) |-> 0]]
  /\ \E est \in ExternalValues(GetNE(owner, p)) : \E tot \in 0 .. MaxFlux :
        /\ error_estimates' = [error_estimates EXCEPT ![p] = est]
        /\ total_error' = [total_error EXCEPT ![p] = tot]
  /\ current_sequence' = [current_sequence EXCEPT ![p] = meshSeq]
  /\ startedStale' = [startedStale EXCEPT ![p] = (current_sequence[p] # meshSeq)]
  /\ pc' = [pc EXCEPT ![p] = "done"]
  /\ UNCHANGED <<inputs, mesh, scratch, fluxCalls, integrated, nExchange, nAllreduce, face_sums>>

\* L2ZienkiewiczZhuEstimator::ComputeEstimates
L2ZZCompute(p) ==
  /\ kind = "L2ZZ"
  /\ pc[p] = "idle"
  /\ flux_space_sequence' = [flux_space_sequence EXCEPT ![p] = meshSeq]
  /\ \E est \in ExternalValues(GetNE(owner, p)) : \E tot \in 0 .. MaxFlux :
        /\ error_estimates' = [error_estimates EXCEPT ![p] = est]
        /\ total_error' = [total_error EXCEPT ![p] = tot]
  /\ current_sequence' = [current_sequence EXCEPT ![p] = meshSeq]
  /\ startedStale' = [startedStale EXCEPT ![p] = (current_sequence[p] # meshSeq)]
  /\ pc' = [pc EXCEPT ![p] = "done"]
  /\ UNCHANGED <<inputs, mesh, aniso_flags, scratch, fluxCalls, integrated, nExchange,
                 nAllreduce, face_sums>>

\* LpErrorEstimator::ComputeEstimates without error_estimates.SetSize(GetNE())
LpCompute_NoResize(p) ==
  /\ kind = "Lp"
  /\ pc[p] = "idle"
  /\ coef # "none"
  /\ \E est \in ExternalValues(Len(error_estimates[p])) :
        error_estimates' = [error_estimates EXCEPT ![p] = est]
  /\ current_sequence' = [current_sequence EXCEPT ![p] = meshSeq]
  /\ startedStale' = [startedStale EXCEPT ![p] = (current_sequence[p] # meshSeq)]
  /\ pc' = [pc EXCEPT ![p] = "done"]
  /\ UNCHANGED <<inputs, mesh, total_error, aniso_flags, flux_space_sequence, scratch,
                 fluxCalls, integrated, nExchange, nAllreduce, face_sums>>

\* LpErrorEstimator::ComputeEstimates with a coefficient set
LpCompute(p) ==
  /\ kind = "Lp"
  /\ pc[p] = "idle"
  /\ coef # "none"
  /\ \E est \in ExternalValues(Len(VectorSetSize(error_estimates[p], GetNE(owner, p)))) :
        error_estimates' = [error_estimates EXCEPT ![p] = est]
  /\ current_sequence' = [current_sequence EXCEPT ![p] = meshSeq]
  /\ startedStale' = [startedStale EXCEPT ![p] = (current_sequence[p] # meshSeq)]
  /\ pc' = [pc EXCEPT ![p] = "done"]
  /\ UNCHANGED <<inputs, mesh, total_error, aniso_flags, flux_space_sequence, scratch,
                 fluxCalls, integrated, nExchange, nAllreduce, face_sums>>

\* MFEM_VERIFY(coef != NULL || vcoef != NULL, ..) fails
LpVerifyFail(p) ==
  /\ kind = "Lp"
  /\ pc[p] = "idle"
  /\ coef = "none"
  /\ startedStale' = [startedStale EXCEPT ![p] = (current_sequence[p] # meshSeq)]
  /\ pc' = [pc EXCEPT ![p] = "config_error"]
  /\ UNCHANGED <<inputs, mesh, results, scratch, fluxCalls, integrated, nExchange,
                 nAllreduce, face_sums>>

\* The external routine of a call fails (ZZErrorEstimator, L2ZZErrorEstimator,
\* ComputeElementLpErrors): what ran before it has happened, the vector may
\* have been written, current_sequence is not reached
ExternalFail(p) ==
  /\ kind \in {"ZZ", "L2ZZ"} \/ (kind = "Lp" /\ coef # "none")
  /\ pc[p] = "idle"
  /\ flux_space_sequence' =
       [flux_space_sequence EXCEPT ![p] = IF kind = "Lp" THEN @ ELSE meshSeq]
  /\ aniso_flags' =
       [aniso_flags EXCEPT ![p] = IF kind = "ZZ" /\ ~anisotropic THEN <<>> ELSE @]
  /\ \E est \in ExternalValues(GetNE(owner, p)) :
        error_estimates' = [error_estimates EXCEPT ![p] = est]
  /\ startedStale' = [startedStale EXCEPT ![p] = (current_sequence[p] # meshSeq)]
  /\ pc' = [pc EXCEPT ![p] = "failed"]
  /\ UNCHANGED <<inputs, mesh, total_error, current_sequence, scratch, fluxCalls,
                 integrated, nExchange, nAllreduce, face_sums>>

\* MPI_Allreduce fails on a process that has called it
AllreduceFail(p) ==
  /\ pc[p] = "reduce"
  /\ pc' = [pc EXCEPT ![p] = "failed"]
  /\ UNCHANGED <<inputs, mesh, results, scratch, ghost>>

\* The mesh changes between two calls (refinement, rebalancing): a new
\* sequence number and a new distribution of the elements
MeshChange ==
  /\ \A p \in Procs : pc[p] \in {"idle", "done"}
  /\ meshSeq < MaxSeq
  /\ meshSeq' = meshSeq + 1
  /\ owner' \in Partitions
  /\ pc' = PerProc("idle")
  /\ UNCHANGED <<inputs, results, scratch, ghost>>

\* The caller calls ComputeEstimates() again on the same mesh
CallAgain ==
  /\ \A p \in Procs : pc[p] = "done"
  /\ pc' = PerProc("idle")
  /\ UNCHANGED <<inputs, mesh, results, scratch, ghost>>

\* a two-element mesh with conforming faces between the elements
FamilyFaces == [f \in 1 .. NumFaces |-> [Elem1No |-> 0, Elem2No |-> 1, NCFace |-> -1]]

FamilyInit ==
  /\ kind \in Kinds
  /\ vdim \in {1, 2}
  /\ coef \in {"none", "scalar", "vector"}
  /\ mfem_debug \in BOOLEAN
  /\ anisotropic \in BOOLEAN
  /\ (kind # "Kelly" => vdim = 1 /\ mfem_debug)
  /\ (kind # "Lp" => coef = "none")
  /\ (kind # "ZZ" => ~anisotropic)
  /\ faces = FamilyFaces
  /\ elemAttr = [g \in Elements |-> 1]
  /\ attributes = {}
  /\ elflux = [g \in Elements |-> 1]
  /\ owner \in Partitions
  /\ InitState

FamilyNext ==
  \/ \E p \in Procs : Start(p)
  \/ \E p \in Procs : KellyAssertFail(p)
  \/ \E p \in Procs : SharedFacesStep(p)
  \/ Allreduce
  \/ \E p \in Procs : AllreduceFail(p)
  \/ \E p \in Procs : ZZCompute(p)
  \/ \E p \in Procs : L2ZZCompute(p)
  \/ \E p \in Procs : LpCompute(p)
  \/ \E p \in Procs : LpVerifyFail(p)
  \/ \E p \in Procs : ExternalFail(p)
  \/ MeshChange
  \/ CallAgain

FamilySpec == FamilyInit /\ [][FamilyNext]_vars

\* ---- what the claims speak of ----
AllDone == \A p \in Procs : pc[p] = "done"

LocalIdx(p) == 1 .. GetNE(owner, p)

\* the element passes the attribute filter
Included(g) == attributes = {} \/ elemAttr[g] \in attributes

Adjacent(f, g) == faces[f].Elem1No = g \/ faces[f].Elem2No = g

\* the recovered flux on element g
RecoveredFlux(g) == IF Included(g) THEN elflux[g] ELSE 0

\* the jump integral of face f as the process p that owns one of its
\* elements computes it
FaceJumpFrom(p, f) ==
  LET e1 == IF IsShared(owner, f) THEN MyElem(owner, p, f) ELSE faces[f].Elem1No
      e2 == IF IsShared(owner, f) THEN NbrElem(owner, p, f) ELSE faces[f].Elem2No
  IN compute_face_coefficient(f)
       * JumpsSum(GetNPoints(2 * GetFaceOrder), RecoveredFlux(e1), RecoveredFlux(e2))

BothIncluded(f) ==
  faces[f].Elem2No >= 0 /\ Included(faces[f].Elem1No) /\ Included(faces[f].Elem2No)

\* interior faces between two elements of process p, both passing the filter
LocalInteriorIncluded(p) ==
  {f \in 1 .. NumFaces :
     BothIncluded(f) /\ owner[faces[f].Elem1No] = p /\ owner[faces[f].Elem2No] = p}

\* shared faces of process p, both elements passing the filter
SharedIncluded(p) ==
  {f \in 1 .. NumFaces : BothIncluded(f) /\ IsShared(owner, f) /\ Touches(owner, p, f)}

\* a conforming face whose first element has the larger number
Reversed(f) ==
  faces[f].Elem2No >= 0 /\ faces[f].NCFace = -1 /\ faces[f].Elem1No > faces[f].Elem2No

\* ---- the cache contract (FamilySpec) ----

\* C1: when ComputeEstimates() of any family member has succeeded, whatever
\* mesh changes and calls came before, the cached sequence number is the
\* mesh's sequence number; and for KellyErrorEstimator and LpErrorEstimator
\* error_estimates has one entry per local element of the current mesh.
C1_CacheAndSize ==
  \A p \in Procs :
    pc[p] = "done" =>
      /\ current_sequence[p] = meshSeq
      /\ (kind \in {"Kelly", "Lp"} => Len(error_estimates[p]) = GetNE(owner, p))

\* a call has succeeded after a mesh change that moved elements to or from
\* the process
C1_Witness ==
  \E p \in Procs :
    /\ pc[p] = "done"
    /\ kind \in {"Kelly", "Lp"}
    /\ meshSeq > 0
    /\ GetNE(owner, p) > 1
    /\ Len(error_estimates[p]) = GetNE(owner, p)

\* C7: a precondition violation (LpErrorEstimator without coefficient,
\* KellyErrorEstimator on a space of vector dimension other than 1) is
\* signalled before any mutation: in the step that signals it,
\* error_estimates, total_error, current_sequence and the flux space of the
\* process are unchanged.
C7_FailBeforeMutation ==
  [][\A p \in Procs :
       (pc[p] # "config_error" /\ pc'[p] = "config_error") =>
         /\ error_estimates'[p] = error_estimates[p]
         /\ total_error'[p] = total_error[p]
         /\ current_sequence'[p] = current_sequence[p]
         /\ flux_space_sequence'[p] = flux_space_sequence[p]]_vars

\* C10: the cached sequence number is assigned only after error_estimates and
\* total_error hold their final values: while a call that started on a
\* changed mesh is running, or after it has failed at any step, the cached
\* sequence number still differs from the mesh's.
C10_SequenceAssignedLast ==
  \A p \in Procs :
    (startedStale[p] /\ pc[p] \in {"exch", "reduce", "failed", "config_error"}) =>
      current_sequence[p] # meshSeq

\* ---- one call of KellyErrorEstimator::ComputeEstimates (Spec) ----

\* C2: after a successful call total_error is the same on every process and
\* is the sum over all processes and their local elements of the finalized
\* estimates, each of which is the root of the element coefficient times the
\* accumulated face sum; no root is taken after the reduction.
C2_GlobalSum ==
  AllDone =>
    /\ \A p \in Procs :
         total_error[p] = SumOver(Procs, [q \in Procs |-> SumSeq(error_estimates[q])])
    /\ \A q \in Procs : \A i \in LocalIdx(q) :
         error_estimates[q][i] =
           Isqrt(compute_element_coefficient(GlobalOf(owner, q, i - 1)) * face_sums[q][i])

\* all processes returned, two of them with a positive local sum, and the
\* root of some element is smaller than what it is taken of
C2_Witness ==
  /\ AllDone
  /\ \E p, q \in Procs :
       p # q /\ SumSeq(error_estimates[p]) > 0 /\ SumSeq(error_estimates[q]) > 0
  /\ \E p \in Procs : \E i \in LocalIdx(p) :
       error_estimates[p][i] > 1 /\ error_estimates[p][i] < face_sums[p][i]

\* the run of a single process on the whole mesh
SerialOwner == [g \in Elements |-> 1]

SerialFaceSums ==
  LET fl == FluxRecovery(SerialOwner, 1)
      loc == LocalFacePass(SerialOwner, 1, fl, 1, [i \in 1 .. NumElems |-> 0], <<>>)
  IN SharedFacePass(SerialOwner, 1, fl, <<>>, 1, loc.err)

SerialTotal == SumSeq(FinalizeErrors(SerialOwner, 1, SerialFaceSums))

\* C3: partition invariance: with the elements split over the processes,
\* every element gets the accumulated face sum, and every process the
\* total_error, of the run of a single process on the same mesh, flux
\* values and attribute filter.
C3_PartitionInvariance ==
  \A p \in Procs :
    /\ pc[p] \in {"reduce", "done"} =>
         \A i \in LocalIdx(p) : face_sums[p][i] = SerialFaceSums[GlobalOf(owner, p, i - 1) + 1]
    /\ pc[p] = "done" => total_error[p] = SerialTotal

\* the same, on the meshes none of whose conforming faces has the larger
\* element number first
PartitionInvarianceOriented ==
  (\A f \in 1 .. NumFaces : ~Reversed(f)) => C3_PartitionInvariance

\* the recovered flux has the same value on both sides of every interior face
ContinuousFlux ==
  \A f \in 1 .. NumFaces :
    faces[f].Elem2No >= 0 =>
      RecoveredFlux(faces[f].Elem1No) = RecoveredFlux(faces[f].Elem2No)

\* C4: zero jump: if the recovered flux is continuous across every interior
\* face, every face contribution is zero and error_estimates[e] = 0 for every
\* local element after the call.
C4_ZeroJump ==
  ContinuousFlux =>
    \A p \in Procs :
      pc[p] \in {"reduce", "done"} =>
        \A i \in LocalIdx(p) : face_sums[p][i] = 0 /\ error_estimates[p][i] = 0

\* the faces the passes of the code integrate for the partition: the shared
\* faces, the slave sides of non-conforming faces and the conforming faces
\* with the smaller element number first
Handled(f) ==
  faces[f].Elem2No >= 0 /\ (IsShared(owner, f) \/ faces[f].NCFace >= 0 \/ ~Reversed(f))

\* C5: attribute filtering: with a non-empty filter a face with an adjacent
\* element outside the filter adds nothing to any element's error sum, the
\* flux of an excluded element is not computed and the estimate of an
\* excluded element is 0 after the call; with an empty filter no element and
\* no face is excluded.
C5_AttributeFilter ==
  \A p \in Procs :
    /\ pc[p] # "idle" =>
         /\ fluxCalls[p] = {i - 1 : i \in {j \in LocalIdx(p) : Included(GlobalOf(owner, p, j - 1))}}
         /\ \A k \in 1 .. Len(integrated[p]) : BothIncluded(integrated[p][k])
    /\ pc[p] \in {"reduce", "done"} =>
         \A i \in LocalIdx(p) :
           LET g == GlobalOf(owner, p, i - 1) IN
           /\ face_sums[p][i] =
                SumOver({f \in 1 .. NumFaces : Handled(f) /\ Adjacent(f, g) /\ BothIncluded(f)},
                        [f \in 1 .. NumFaces |-> FaceJumpFrom(p, f)])
           /\ (~Included(g) => error_estimates[p][i] = 0)

\* a call has returned on a mesh where an element inside the filter, with a
\* positive flux, has a face to an element outside it
C5_Witness ==
  /\ AllDone
  /\ attributes # {}
  /\ \E f \in 1 .. NumFaces :
       /\ Handled(f)
       /\ Included(faces[f].Elem1No) /\ ~Included(faces[f].Elem2No)
       /\ elflux[faces[f].Elem1No] > 0 /\ elflux[faces[f].Elem2No] > 0

\* C6: in every call every process completes exactly one halo exchange and
\* then exactly one global reduction, whatever its local data; no process
\* returns before all processes have entered the reduction, and until every
\* process has returned some process can take its next step (a process that
\* has not called yet can call, an exchange or the reduction can complete).
C6_Collectives ==
  /\ \A p \in Procs :
       /\ pc[p] = "exch" => nExchange[p] = 0 /\ nAllreduce[p] = 0
       /\ pc[p] = "reduce" => nExchange[p] = 1 /\ nAllreduce[p] = 0
       /\ pc[p] = "done" => nExchange[p] = 1 /\ nAllreduce[p] = 1
  /\ (\E p \in Procs : pc[p] = "done") => \A q \in Procs : pc[q] \in {"reduce", "done"}
  /\ \/ AllDone
     \/ \E p \in Procs : pc[p] = "idle"
     \/ \E p \in Procs : pc[p] = "exch" /\ ExchangeCanComplete(p)
     \/ AllreduceCanComplete

\* every process has returned, one of them owning no element and one of
\* them having all its faces skipped by the attribute filter
C6_Witness ==
  /\ AllDone
  /\ \E p \in Procs : GetNE(owner, p) = 0
  /\ \E p \in Procs :
       /\ LocalFaces(owner, p) # <<>>
       /\ \A k \in 1 .. Len(LocalFaces(owner, p)) : ~BothIncluded(LocalFaces(owner, p)[k])

\* C8: in the local pass every interior face between two local elements that
\* both pass the filter is integrated exactly once and adds its jump integral
\* once to each of its two elements, whichever of the two elements is the
\* first one, on conforming and on non-conforming faces; no other face adds
\* anything.
C8_LocalFacesOnce ==
  \A p \in Procs :
    pc[p] = "exch" =>
      /\ \A f \in 1 .. NumFaces :
           Count(integrated[p], f) = IF f \in LocalInteriorIncluded(p) THEN 1 ELSE 0
      /\ \A i \in LocalIdx(p) :
           error_estimates[p][i] =
             SumOver({f \in LocalInteriorIncluded(p) : Adjacent(f, GlobalOf(owner, p, i - 1))},
                     [f \in 1 .. NumFaces |-> FaceJumpFrom(p, f)])

\* the same for the faces the convention of the code covers
LocalFacesOnceOriented ==
  (\A f \in 1 .. NumFaces : ~Reversed(f)) => C8_LocalFacesOnce

\* C9: in the shared-face pass each shared face that passes the filter adds
\* its jump integral to the entry of its local element and to no other
\* entry; nothing is credited for the element of the other process, and
\* every entry written is one of the local elements.
C9_SharedCredit ==
  [][\A p \in Procs :
       (pc[p] = "exch" /\ pc'[p] = "reduce") =>
         /\ Len(face_sums'[p]) = GetNE(owner, p)
         /\ \A f \in SharedIncluded(p) :
              LocalIndex(owner, MyElem(owner, p, f)) \in 0 .. (GetNE(owner, p) - 1)
         /\ \A i \in LocalIdx(p) :
              face_sums'[p][i] =
                error_estimates[p][i]
                  + SumOver({f \in SharedIncluded(p) :
                               LocalIndex(owner, MyElem(owner, p, f)) = i - 1},
                            [f \in 1 .. NumFaces |-> FaceJumpFrom(p, f)])]_vars

\* a process with two local elements has run the shared pass on a shared
\* face with a positive jump integral; the sum of its other element is 0
C9_Witness ==
  \E p \in Procs :
    /\ pc[p] = "reduce"
    /\ GetNE(owner, p) = 2
    /\ \E f \in SharedIncluded(p) : FaceJumpFrom(p, f) > 0
    /\ \E i \in LocalIdx(p) : face_sums[p][i] = 0
    /\ \E i \in LocalIdx(p) : face_sums[p][i] > 0

====
